---------------------------- MODULE Spec2Model ----------------------------
(***************************************************************************)
(* Inventory Forecast API (backend/app.py): module initialisation, the     *)
(* /predict handler and the /bulk_predict handler.                         *)
(*                                                                         *)
(* Representation.                                                         *)
(*  - A Python float is a fixed-point integer counting 1/Scale units       *)
(*    (Scale = 10^4), so 100.004 is 1000040.  Every input is a multiple of *)
(*    0.02 and every prediction a multiple of 0.001, which makes the       *)
(*    products by 0.9, 0.85, 0.8, 1.2, 1.5 and 0.5 exact in these units.   *)
(*    NaN and the infinities are not represented.                          *)
(*  - A Python str that the code inspects character by character (a        *)
(*    category, a stock given as text) is a sequence of one-character      *)
(*    strings; a dict key is a TLA+ string (Join converts).                *)
(*  - A JSON value is a tagged record (JNum, JStr, JNull); a JSON object   *)
(*    and a Python dict are functions whose DOMAIN is the set of keys; a   *)
(*    JSON array sent as a response body is [array |-> <<...>>].           *)
(*  - An operator that can raise returns [ok |-> FALSE, exc |-> <type>].   *)
(***************************************************************************)
EXTENDS Integers, Sequences, FiniteSets, TLC

VARIABLES
    artifact,       \* the file at MODEL_PATH: missing, corrupt or a pickled pipeline
    server,         \* position of the process: "starting", "exited", "imported", "serving"
    model,          \* module global `model` (app.py:32)
    feature_names,  \* module global `feature_names` (app.py:36)
    clock,          \* index into Clock: what datetime.datetime.now() returns
    frame,          \* per worker thread: the locals of the handler it runs
    accepted        \* number of requests accepted so far

vars == <<artifact, server, model, feature_names, clock, frame, accepted>>

---------------------------------------------------------------------------
(* Bounds of the model *)

MaxThreads == 2
MaxItems == 2
MaxRequests == 2

Threads == 1..MaxThreads

---------------------------------------------------------------------------
(* Numbers *)

Scale == 10 * 10 * 10 * 10

Num(n) == n * Scale

\* x * (num/den) for a fixed-point x; exact for the inputs drawn
Times(x, num, den) == (x * num) \div den

\* Python int(x) of a float: truncation toward zero
PyInt(x) == IF x >= 0 THEN x \div Scale ELSE -((-x) \div Scale)

\* Python max(a, b)
Max(a, b) == IF b > a THEN b ELSE a

\* Python round(x, 2): to the nearest 0.01, a tie to the even hundredth
Round2(x) ==
    LET step == Scale \div 100
        q == x \div step
        r == x % step
    IN  IF 2 * r < step THEN q * step
        ELSE IF 2 * r > step THEN (q + 1) * step
        ELSE IF q % 2 = 0 THEN q * step ELSE (q + 1) * step

---------------------------------------------------------------------------
(* Strings *)

UpperCase == <<"A","B","C","D","E","F","G","H","I","J","K","L","M",
               "N","O","P","Q","R","S","T","U","V","W","X","Y","Z">>
LowerCase == <<"a","b","c","d","e","f","g","h","i","j","k","l","m",
               "n","o","p","q","r","s","t","u","v","w","x","y","z">>
Digits == <<"0","1","2","3","4","5","6","7","8","9">>
Whitespace == {" ", "\t", "\n", "\r"}

LowerChar(c) ==
    IF \E i \in DOMAIN UpperCase : UpperCase[i] = c
    THEN LowerCase[CHOOSE i \in DOMAIN UpperCase : UpperCase[i] = c]
    ELSE c

\* str.lower()
Lower(s) == [i \in DOMAIN s |-> LowerChar(s[i])]

RECURSIVE LStrip(_)
LStrip(s) == IF s # <<>> /\ Head(s) \in Whitespace THEN LStrip(Tail(s)) ELSE s

RECURSIVE RStrip(_)
RStrip(s) ==
    IF s # <<>> /\ s[Len(s)] \in Whitespace
    THEN RStrip(SubSeq(s, 1, Len(s) - 1)) ELSE s

\* str.strip()
Strip(s) == RStrip(LStrip(s))

\* the characters of a Python str as one dict key
RECURSIVE Join(_)
Join(s) == IF s = <<>> THEN "" ELSE Head(s) \o Join(Tail(s))

IsDigit(c) == \E i \in DOMAIN Digits : Digits[i] = c
DigitVal(c) == (CHOOSE i \in DOMAIN Digits : Digits[i] = c) - 1

RECURSIVE DecimalValue(_)
DecimalValue(s) ==
    IF s = <<>> THEN 0
    ELSE 10 * DecimalValue(SubSeq(s, 1, Len(s) - 1)) + DigitVal(s[Len(s)])

---------------------------------------------------------------------------
(* JSON values *)

JNum(n) == [t |-> "num", n |-> n, s |-> <<>>]
JStr(s) == [t |-> "str", n |-> 0, s |-> s]
JNull == [t |-> "null", n |-> 0, s |-> <<>>]

Ok(v) == [ok |-> TRUE, v |-> v, exc |-> ""]
Raise(e) == [ok |-> FALSE, v |-> 0, exc |-> e]

\* float(str) on a text over digits, sign and whitespace: surrounding
\* whitespace is ignored, anything that is not a signed run of digits raises
StrToFloat(s) ==
    LET b == Strip(s)
        neg == b # <<>> /\ Head(b) = "-"
        d == IF b # <<>> /\ Head(b) \in {"-", "+"} THEN Tail(b) ELSE b
    IN  IF d # <<>> /\ \A i \in DOMAIN d : IsDigit(d[i])
        THEN Ok(IF neg THEN -Num(DecimalValue(d)) ELSE Num(DecimalValue(d)))
        ELSE Raise("ValueError")

\* float(x) of a JSON value
PyFloat(x) ==
    CASE x.t = "num" -> Ok(x.n)
      [] x.t = "str" -> StrToFloat(x.s)
      [] OTHER -> Raise("TypeError")

\* x.lower().strip() of a JSON value
Normalize(x) ==
    IF x.t = "str" THEN [ok |-> TRUE, v |-> Strip(Lower(x.s)), exc |-> ""]
    ELSE [ok |-> FALSE, v |-> <<>>, exc |-> "AttributeError"]

---------------------------------------------------------------------------
(* The environment: the clock and the model artifact *)

\* the values datetime.datetime.now() can return, in order of time
Clock == << [month |-> 10, week |-> 40], [month |-> 11, week |-> 45] >>

FullSchema == <<"month", "weekofyear", "lag_1", "lag_2", "lag_3",
                "rolling_mean_3", "price", "cat_books", "cat_food">>
NoTimeSchema == <<"lag_1", "lag_2", "lag_3", "rolling_mean_3",
                  "cat_books", "cat_food">>
NoLagSchema == <<"month", "weekofyear", "cat_books">>

Range(f) == {f[i] : i \in DOMAIN f}

\* a fitted pipeline: its training columns, and a linear predictor over them
\* (intercept and per-column coefficients, fixed point)
Pipeline(names, intercept, coef) ==
    [feature_names_in_ |-> names,
     intercept |-> intercept,
     coef |-> [f \in Range(names) |-> IF f \in DOMAIN coef THEN coef[f] ELSE 0]]

Unbound == [feature_names_in_ |-> <<>>, intercept |-> 0, coef |-> [f \in {} |-> 0]]

\* 100.004, less 15.004 for books: 85.0 for books, 100.004 otherwise
PipelineA == Pipeline(FullSchema, 1000040, [cat_books |-> -150040])
\* lag_1 + month
PipelineB == Pipeline(FullSchema, 0, [lag_1 |-> Scale, month |-> Scale])
PipelineC == Pipeline(NoTimeSchema, Num(90), [cat_books |-> Num(5)])
PipelineD == Pipeline(NoLagSchema, Num(90), [cat_books |-> Num(5)])

Pipelines == {PipelineA, PipelineB, PipelineC, PipelineD}

\* what os.path.exists(MODEL_PATH) and joblib.load(MODEL_PATH) can find
Artifacts ==
    {[kind |-> "missing", pipeline |-> Unbound],
     [kind |-> "corrupt", pipeline |-> Unbound]}
    \cup {[kind |-> "pipeline", pipeline |-> p] : p \in Pipelines}

\* a * b of two fixed-point numbers (the integer and fractional parts of a
\* apart, to stay within machine integers)
MulFix(a, b) == (a \div Scale) * b + ((a % Scale) * b) \div Scale

RECURSIVE Dot(_, _, _)
Dot(names, coef, row) ==
    IF names = <<>> THEN 0
    ELSE MulFix(coef[Head(names)], row[Head(names)])
         + Dot(Tail(names), coef, row)

\* model.predict(df)[0] for a one-row frame: the columns must be exactly the
\* training columns, else the predictor fails; otherwise one float
ModelPredict(m, df) ==
    LET row == df[1]
    IN  IF DOMAIN row # Range(m.feature_names_in_)
        THEN Raise("SchemaMismatch")
        ELSE Ok(m.intercept + Dot(m.feature_names_in_, m.coef, row))

---------------------------------------------------------------------------
(* Feature row (app.py:65-84, 125-142) *)

\* d[k] = v on a dict
Put(d, k, v) == [x \in DOMAIN d \cup {k} |-> IF x = k THEN v ELSE d[x]]

\* row = {col: 0 for col in feature_names}
EmptyRow(names) == [col \in Range(names) |-> 0]

\* row["month"] = now.month; row["weekofyear"] = now.isocalendar().week
FillTime(row, now) ==
    Put(Put(row, "month", Num(now.month)), "weekofyear", Num(now.week))

\* row["lag_1"], row["lag_2"], row["lag_3"], row["rolling_mean_3"]
FillLags(row, current_stock) ==
    LET r1 == Put(row, "lag_1", Times(current_stock, 9, 10))
        r2 == Put(r1, "lag_2", Times(current_stock, 85, 100))
        r3 == Put(r2, "lag_3", Times(current_stock, 8, 10))
    IN  Put(r3, "rolling_mean_3",
            (r3["lag_1"] + r3["lag_2"] + r3["lag_3"]) \div 3)

\* cat_col = f"cat_{category}"
CatCol(category) == "cat_" \o Join(category)

\* if cat_col in row: row[cat_col] = 1
SetCategoryFlag(row, cat_col) ==
    IF cat_col \in DOMAIN row THEN [row EXCEPT ![cat_col] = Num(1)] ELSE row

BuildRow(names, category, current_stock, now) ==
    SetCategoryFlag(FillLags(FillTime(EmptyRow(names), now), current_stock),
                    CatCol(category))

---------------------------------------------------------------------------
(* Decision logic *)

\* a variant of line 89 that compares the value as it is returned
RecommendationOnRounded(predicted_sales, current_stock) ==
    IF Round2(predicted_sales) > current_stock THEN "Overstock" ELSE "Understock"

\* app.py:89
Recommendation(predicted_sales, current_stock) ==
    IF predicted_sales > current_stock THEN "Overstock" ELSE "Understock"

\* app.py:149
SafetyStock(predicted_sales) == Times(predicted_sales, 12, 10)

\* a variant of line 150 without the max(0, ...)
ReorderQtyUnclamped(safety_stock, current_stock) ==
    PyInt(safety_stock - current_stock)

\* app.py:150
ReorderQty(safety_stock, current_stock) ==
    Max(0, PyInt(safety_stock - current_stock))

\* a variant of lines 152-157 whose second test repeats the factor 1.5
DecisionSameBand(predicted_sales, current_stock) ==
    IF predicted_sales > Times(current_stock, 15, 10) THEN "restock"
    ELSE IF predicted_sales < Times(current_stock, 15, 10) THEN "overstock"
    ELSE "ok"

\* app.py:152-157
Decision(predicted_sales, current_stock) ==
    IF predicted_sales > Times(current_stock, 15, 10) THEN "restock"
    ELSE IF predicted_sales < Times(current_stock, 5, 10) THEN "overstock"
    ELSE "ok"

---------------------------------------------------------------------------
(* Requests *)

\* request.get_json(): an object, a list of objects or null
JObject(o) == [t |-> "obj", o |-> o, l |-> <<>>]
JList(l) == [t |-> "list", o |-> <<>>, l |-> l]
JNullData == [t |-> "null", o |-> <<>>, l |-> <<>>]

Absent == [t |-> "absent", n |-> 0, s |-> <<>>]

\* the object with the keys whose value is given
Object(category, current_stock) ==
    [k \in (IF category = Absent THEN {} ELSE {"category"})
           \cup (IF current_stock = Absent THEN {} ELSE {"current_stock"})
       |-> IF k = "category" THEN category ELSE current_stock]

Books == JStr(<<" ", "B", "o", "o", "k", "s">>)
Toys == JStr(<<"t", "o", "y", "s">>)

StockValues ==
    {JNum(Num(100)), JNum(-Num(20)), JStr(<<"5", "0">>),
     JStr(<<"a", "b", "c">>), Absent}

Objects ==
    {Object(c, s) : c \in {Books, Toys}, s \in StockValues}
    \cup {Object(c, s) : c \in {JNum(Num(7)), Absent},
                         s \in {JNum(Num(100)), Absent}}

BulkItems ==
    {Object(Books, JNum(Num(50))), Object(Toys, JNum(Num(250))),
     Object(Books, Absent), Object(Books, JStr(<<"a", "b", "c">>)),
     Object(JNum(Num(7)), JNum(Num(100)))}

RECURSIVE SeqsUpTo(_, _)
SeqsUpTo(S, n) ==
    IF n = 0 THEN {<<>>}
    ELSE LET shorter == SeqsUpTo(S, n - 1)
         IN  shorter \cup {Append(q, x) : q \in shorter, x \in S}

Lists == {JList(l) : l \in SeqsUpTo(BulkItems, MaxItems)}

\* the bodies posted to each route
Bodies(endpoint) ==
    IF endpoint = "predict"
    THEN {JObject(o) : o \in Objects} \cup {JList(<<>>), JNullData}
    ELSE Lists \cup {JObject(Object(Books, JNum(Num(100)))), JNullData}

Endpoints == {"predict", "bulk_predict"}

---------------------------------------------------------------------------
(* Handler frames *)

NoResponse == [status |-> 0, body |-> <<>>]

\* jsonify(body), status
Response(status, body) == [status |-> status, body |-> body]

\* jsonify({"error": str(e)}), status
ErrorResponse(status, msg) == Response(status, [error |-> msg])

Required == "Both 'category' and 'current_stock' are required"

Idle ==
    [pc |-> "idle", endpoint |-> "", data |-> JNullData,
     category |-> <<>>, current_stock |-> 0, now |-> 0,
     row |-> <<>>, df |-> <<>>, predicted_sales |-> 0,
     i |-> 0, results |-> <<>>, resp |-> NoResponse]

\* the locals of a handler that has just been entered
Fresh(endpoint, data) ==
    [Idle EXCEPT !.pc = "received", !.endpoint = endpoint, !.data = data]

Return(f, resp) == [f EXCEPT !.pc = "done", !.resp = resp]

\* `key in data` for the parsed body: a key of an object; never an element of
\* a list of objects
In(key, data) ==
    CASE data.t = "obj" -> Ok(key \in DOMAIN data.o)
      [] data.t = "list" -> Ok(FALSE)
      [] OTHER -> Raise("TypeError")

---------------------------------------------------------------------------
(* predict(), app.py:55-98 *)

\* lines 57-84: parse and validate the body, build the feature row
PredictBuild(f, names, now) ==
    LET data == f.data
        hasCategory == In("category", data)
    IN  IF ~hasCategory.ok
        THEN Return(f, ErrorResponse(500, hasCategory.exc))
        ELSE IF ~hasCategory.v \/ ~In("current_stock", data).v
        THEN Return(f, ErrorResponse(400, Required))
        ELSE
        LET category == Normalize(data.o["category"])
        IN  IF ~category.ok
            THEN Return(f, ErrorResponse(500, category.exc))
            ELSE
            LET f1 == [f EXCEPT !.category = category.v]
                current_stock == PyFloat(data.o["current_stock"])
            IN  IF ~current_stock.ok
                THEN Return(f1, ErrorResponse(500, current_stock.exc))
                ELSE [f1 EXCEPT
                        !.current_stock = current_stock.v,
                        !.now = now,
                        !.row = BuildRow(names, category.v, current_stock.v,
                                         Clock[now]),
                        !.pc = "row_built"]

\* lines 86-95: predict and recommend
PredictRespond(f, m) ==
    LET f1 == [f EXCEPT !.df = <<f.row>>]
        predicted_sales == ModelPredict(m, f1.df)
    IN  IF ~predicted_sales.ok
        THEN Return(f1, ErrorResponse(500, predicted_sales.exc))
        ELSE Return([f1 EXCEPT !.predicted_sales = predicted_sales.v],
                    Response(200,
                        [predicted_sales |-> Round2(predicted_sales.v),
                         current_stock |-> f.current_stock,
                         recommendation |->
                             Recommendation(predicted_sales.v, f.current_stock)]))

---------------------------------------------------------------------------
(* bulk_predict(), app.py:105-171 *)

Unknown == JStr(<<"u", "n", "k", "n", "o", "w", "n">>)

\* item.get(key, default)
Get(item, key, default) == IF key \in DOMAIN item THEN item[key] ELSE default

\* lines 107-112
BulkBegin(f) ==
    IF f.data.t # "list"
    THEN Return(f, ErrorResponse(400, "Expected a list of prediction requests"))
    ELSE [f EXCEPT !.results = <<>>, !.i = 1, !.pc = "loop"]

\* lines 115-119: the entry of an item that lacks a key
ItemError(item) ==
    [error |-> Required,
     category |-> Get(item, "category", Unknown),
     current_stock |-> Get(item, "current_stock", JNum(0))]

\* lines 159-166: the entry of a processed item
ItemResult(category, predicted_sales, current_stock) ==
    [category |-> JStr(category),
     pred_next_week_units |-> Round2(predicted_sales),
     current_stock |-> JNum(current_stock),
     decision |-> Decision(predicted_sales, current_stock),
     reorder_qty |-> ReorderQty(SafetyStock(predicted_sales), current_stock),
     safety_stock_estimate |-> Round2(SafetyStock(predicted_sales))]

\* a variant in which the list is rebound inside the loop
AppendEntryReset(f, entry) == [f EXCEPT !.results = <<entry>>, !.i = @ + 1]

\* results.append(entry), and on to the next item
AppendEntry(f, entry) == [f EXCEPT !.results = Append(@, entry), !.i = @ + 1]

\* lines 113-166: one iteration of the loop, on item data[i]
BulkItem(f, names, m, now) ==
    LET item == f.data.l[f.i]
    IN  IF "category" \notin DOMAIN item \/ "current_stock" \notin DOMAIN item
        THEN AppendEntry(f, ItemError(item))
        ELSE
        LET category == Normalize(item["category"])
        IN  IF ~category.ok
            THEN Return(f, ErrorResponse(500, category.exc))
            ELSE
            LET f1 == [f EXCEPT !.category = category.v]
                current_stock == PyFloat(item["current_stock"])
            IN  IF ~current_stock.ok
                THEN Return(f1, ErrorResponse(500, current_stock.exc))
                ELSE
                LET row == BuildRow(names, category.v, current_stock.v,
                                    Clock[now])
                    f2 == [f1 EXCEPT !.current_stock = current_stock.v,
                                     !.now = now, !.row = row, !.df = <<row>>]
                    predicted_sales == ModelPredict(m, f2.df)
                IN  IF ~predicted_sales.ok
                    THEN Return(f2, ErrorResponse(500, predicted_sales.exc))
                    ELSE AppendEntry(
                            [f2 EXCEPT !.predicted_sales = predicted_sales.v],
                            ItemResult(category.v, predicted_sales.v,
                                       current_stock.v))

\* line 168
BulkReturn(f) == Return(f, Response(200, [array |-> f.results]))

---------------------------------------------------------------------------
(* Module initialisation and the server, app.py:25-37, 242-256 *)

\* a variant of lines 28-36 that goes on without the artifact
ModuleInitUnchecked(a) ==
    IF a.kind = "pipeline"
    THEN [server |-> "imported", model |-> a.pipeline,
          feature_names |-> a.pipeline.feature_names_in_]
    ELSE [server |-> "imported", model |-> Unbound, feature_names |-> <<>>]

\* lines 28-36: the artifact is checked, loaded, and its columns listed;
\* an exception at import ends the process
ModuleInit(a) ==
    IF a.kind = "missing"
    THEN [server |-> "exited", model |-> Unbound, feature_names |-> <<>>]
    ELSE IF a.kind = "corrupt"
    THEN [server |-> "exited", model |-> Unbound, feature_names |-> <<>>]
    ELSE [server |-> "imported", model |-> a.pipeline,
          feature_names |-> a.pipeline.feature_names_in_]

\* a variant in which `row` is one dict of the module, seen by every thread
StoreLocalsSharedRow(frames, t, f) ==
    [u \in DOMAIN frames |->
        IF u = t THEN f ELSE [frames[u] EXCEPT !.row = f.row]]

\* the locals of a handler belong to the thread that runs it
StoreLocals(frames, t, f) == [frames EXCEPT ![t] = f]

---------------------------------------------------------------------------
(* Actions *)

Init ==
    /\ artifact \in Artifacts
    /\ server = "starting"
    /\ model = Unbound
    /\ feature_names = <<>>
    /\ clock = 1
    /\ frame = [t \in Threads |-> Idle]
    /\ accepted = 0

Startup ==
    /\ server = "starting"
    /\ LET g == ModuleInit(artifact)
       IN  /\ server' = g.server
           /\ model' = g.model
           /\ feature_names' = g.feature_names
    /\ UNCHANGED <<artifact, clock, frame, accepted>>

\* app.run(...), line 256
Run ==
    /\ server = "imported"
    /\ server' = "serving"
    /\ UNCHANGED <<artifact, model, feature_names, clock, frame, accepted>>

Tick ==
    /\ server = "serving"
    /\ clock < Len(Clock)
    /\ clock' = clock + 1
    /\ UNCHANGED <<artifact, server, model, feature_names, frame, accepted>>

\* a worker thread takes a request for one of the two routes
Receive(t, endpoint, data) ==
    /\ server = "serving"
    /\ frame[t].pc \in {"idle", "done"}
    /\ accepted < MaxRequests
    /\ accepted' = accepted + 1
    /\ frame' = StoreLocals(frame, t, Fresh(endpoint, data))
    /\ UNCHANGED <<artifact, server, model, feature_names, clock>>

Step(t, f) ==
    /\ frame' = StoreLocals(frame, t, f)
    /\ UNCHANGED <<artifact, server, model, feature_names, clock, accepted>>

DoPredictBuild(t) ==
    /\ frame[t].pc = "received" /\ frame[t].endpoint = "predict"
    /\ Step(t, PredictBuild(frame[t], feature_names, clock))

DoPredictRespond(t) ==
    /\ frame[t].pc = "row_built"
    /\ Step(t, PredictRespond(frame[t], model))

DoBulkBegin(t) ==
    /\ frame[t].pc = "received" /\ frame[t].endpoint = "bulk_predict"
    /\ Step(t, BulkBegin(frame[t]))

DoBulkItem(t) ==
    /\ frame[t].pc = "loop" /\ frame[t].i <= Len(frame[t].data.l)
    /\ Step(t, BulkItem(frame[t], feature_names, model, clock))

DoBulkReturn(t) ==
    /\ frame[t].pc = "loop" /\ frame[t].i > Len(frame[t].data.l)
    /\ Step(t, BulkReturn(frame[t]))

Next ==
    \/ Startup
    \/ Run
    \/ Tick
    \/ \E t \in Threads, e \in Endpoints : \E d \in Bodies(e) : Receive(t, e, d)
    \/ \E t \in Threads : DoPredictBuild(t)
    \/ \E t \in Threads : DoPredictRespond(t)
    \/ \E t \in Threads : DoBulkBegin(t)
    \/ \E t \in Threads : DoBulkItem(t)
    \/ \E t \in Threads : DoBulkReturn(t)

Spec == Init /\ [][Next]_vars

---------------------------------------------------------------------------
(* Vocabulary of the properties *)

\* the fields the handlers assign unconditionally (lines 70-77, 130-137)
SetFields ==
    {"month", "weekofyear", "lag_1", "lag_2", "lag_3", "rolling_mean_3"}

\* every cat_<name> key that occurs in a schema or can come from a request
CategoryColumns == {"cat_books", "cat_food", "cat_toys"}

SchemaComplete == SetFields \subseteq Range(feature_names)

LacksKey(o) == "category" \notin DOMAIN o \/ "current_stock" \notin DOMAIN o

\* an object no prediction can be made from
Malformed(o) ==
    \/ LacksKey(o)
    \/ o["category"].t # "str"
    \/ ~PyFloat(o["current_stock"]).ok

StockOf(o) == PyFloat(o["current_stock"]).v
CategoryOf(o) == Strip(Lower(o["category"].s))

IsPredict(f) == f.endpoint = "predict" /\ f.data.t = "obj"
IsBulk(f) == f.endpoint = "bulk_predict" /\ f.data.t = "list"
Replied(f, status) == f.pc = "done" /\ f.resp.status = status

\* the loop has just appended the result of item i - 1
JustProcessed(f) ==
    /\ IsBulk(f) /\ f.pc = "loop" /\ f.i > 1
    /\ ~LacksKey(f.data.l[f.i - 1])

LastEntry(f) == f.results[f.i - 1]

\* the locals hold the row built for the category they hold
RowBuilt(f) ==
    \/ f.pc = "row_built"
    \/ IsPredict(f) /\ f.df # <<>>
    \/ JustProcessed(f)

---------------------------------------------------------------------------
(* Properties *)

\* C1: one bad item never aborts the batch.  Whenever bulk_predict has
\* answered a list that holds an invalid item (a key missing, a stock that
\* is not a number, a category that is not a string), the answer is the list
\* of results, with an error object in the slot of every invalid item and a
\* prediction in the slot of every valid one.  Stated for a model whose
\* schema holds the fields the handler sets, where valid items do predict.
C1_BadItemKeepsBatch ==
    \A t \in Threads :
        LET f == frame[t]
        IN  ( /\ IsBulk(f) /\ f.pc = "done" /\ SchemaComplete
              /\ \E i \in DOMAIN f.data.l : Malformed(f.data.l[i]) )
            => /\ f.resp.status = 200
               /\ Len(f.resp.body.array) = Len(f.data.l)
               /\ \A i \in DOMAIN f.data.l :
                      IF Malformed(f.data.l[i])
                      THEN "error" \in DOMAIN f.resp.body.array[i]
                      ELSE "decision" \in DOMAIN f.resp.body.array[i]

\* C2: a /predict body with a missing category, a missing current_stock, a
\* stock that is not a number or a negative stock is answered with a 4xx
\* status and an error message, and never reaches the model: no feature row
\* is built for it and no prediction is returned.
C2_InvalidInputRejected ==
    \A t \in Threads :
        LET f == frame[t]
            o == f.data.o
            invalid ==
                \/ LacksKey(o)
                \/ ~PyFloat(o["current_stock"]).ok
                \/ StockOf(o) < 0
        IN  (IsPredict(f) /\ invalid)
            => /\ f.pc # "row_built"
               /\ f.df = <<>>
               /\ f.pc = "done" =>
                      /\ f.resp.status >= 400 /\ f.resp.status < 500
                      /\ "error" \in DOMAIN f.resp.body

\* C3 as stated: in every result of /predict the recommendation is Overstock
\* or Understock, and it is Overstock iff the predicted_sales of the result
\* (the prediction rounded to 2 places) exceeds the current_stock of the
\* result.
C3_RecommendationOnReturnedValue ==
    \A t \in Threads :
        LET f == frame[t]
            b == f.resp.body
        IN  (IsPredict(f) /\ Replied(f, 200))
            => /\ b.recommendation \in {"Overstock", "Understock"}
               /\ b.recommendation = "Overstock"
                      <=> b.predicted_sales > b.current_stock

\* C3 amended: in every result of /predict the recommendation is Overstock or
\* Understock, and it is Overstock iff the model's prediction, before it is
\* rounded, exceeds the current stock; the predicted_sales returned is that
\* prediction rounded to the nearest hundredth, and the current_stock
\* returned is the stock of the request as a float.
C3_RecommendationOnPrediction ==
    \A t \in Threads :
        LET f == frame[t]
            b == f.resp.body
            step == Scale \div 100
        IN  (IsPredict(f) /\ Replied(f, 200))
            => /\ b.recommendation \in {"Overstock", "Understock"}
               /\ b.recommendation = "Overstock"
                      <=> f.predicted_sales > b.current_stock
               /\ b.current_stock = StockOf(f.data.o)
               /\ b.predicted_sales % step = 0
               /\ 2 * (b.predicted_sales - f.predicted_sales) <= step
               /\ 2 * (f.predicted_sales - b.predicted_sales) <= step

\* a result says Overstock although the predicted_sales it returns does not
\* exceed the current_stock it returns
C3_Witness ==
    \E t \in Threads :
        /\ IsPredict(frame[t]) /\ Replied(frame[t], 200)
        /\ frame[t].resp.body.recommendation = "Overstock"
        /\ frame[t].resp.body.predicted_sales = frame[t].resp.body.current_stock

\* C4: for every item the bulk loop has processed, the decision is one of
\* restock, overstock, ok; restock implies predicted_sales > 1.5 *
\* current_stock; overstock implies predicted_sales < 0.5 * current_stock;
\* ok holds iff neither condition does; and for a positive stock the two
\* conditions are never both true.
C4_Decision ==
    \A t \in Threads :
        LET f == frame[t]
            e == LastEntry(f)
            above == 2 * f.predicted_sales > 3 * f.current_stock
            below == 2 * f.predicted_sales < f.current_stock
        IN  JustProcessed(f)
            => /\ e.decision \in {"restock", "overstock", "ok"}
               /\ e.decision = "restock" => above
               /\ e.decision = "overstock" => below
               /\ e.decision = "ok" <=> (~above /\ ~below)
               /\ f.current_stock > 0 => ~(above /\ below)

\* an item was processed whose prediction lies below half of its stock
C4_Witness ==
    \E t \in Threads :
        /\ JustProcessed(frame[t])
        /\ LastEntry(frame[t]).decision = "overstock"
        /\ frame[t].current_stock > 0

\* C5: for every item the bulk loop has processed, reorder_qty is an integer
\* >= 0 equal to max(0, floor(predicted_sales * 1.2 - current_stock)): the
\* truncation toward zero of the code agrees with the floor, also when the
\* difference is negative and not an integer.
C5_ReorderQty ==
    \A t \in Threads :
        LET f == frame[t]
            e == LastEntry(f)
            floor == (12 * f.predicted_sales - 10 * f.current_stock)
                         \div (10 * Scale)
        IN  JustProcessed(f)
            => /\ e.reorder_qty \in Nat
               /\ e.reorder_qty = IF floor > 0 THEN floor ELSE 0

\* an item was processed whose safety stock less its stock is negative and
\* not an integer
C5_Witness ==
    \E t \in Threads :
        LET f == frame[t]
            diff == 12 * f.predicted_sales - 10 * f.current_stock
        IN  /\ JustProcessed(f)
            /\ diff < 0
            /\ diff % (10 * Scale) # 0
            /\ LastEntry(f).reorder_qty = 0

\* C6: whatever schema the model was trained on, the feature row handed to
\* the predictor has exactly the fields of the schema, and every field the
\* handler did not set explicitly is 0.
C6_RowMatchesSchema ==
    \A t \in Threads :
        LET f == frame[t]
            row == f.df[1]
        IN  f.df # <<>>
            => /\ DOMAIN row = Range(feature_names)
               /\ \A k \in DOMAIN row :
                      k \notin SetFields \cup {CatCol(f.category)}
                          => row[k] = 0

\* the category flags of a row built for `category` over the schema: no
\* cat_ field is added, the field of a known category is 1, every other 0
FlagsSet(row, category) ==
    /\ DOMAIN row \cap CategoryColumns
           = Range(feature_names) \cap CategoryColumns
    /\ \A k \in DOMAIN row \cap CategoryColumns :
           row[k] = IF k = CatCol(category) THEN Num(1) ELSE 0

\* C7: an unknown category never raises.  A request that is well formed but
\* for its category, whose normalised name has no cat_ field in the schema,
\* gets a row with every cat_ field at 0 and no field added for it, the
\* model is invoked, and a prediction is returned, by /predict and for the
\* item by /bulk_predict; a known category sets exactly its own cat_ field.
C7_UnknownCategoryServed ==
    \A t \in Threads :
        LET f == frame[t]
            unknown(o) ==
                /\ ~Malformed(o) /\ StockOf(o) >= 0
                /\ CatCol(CategoryOf(o)) \notin Range(feature_names)
        IN  /\ RowBuilt(f) => FlagsSet(f.row, f.category)
            /\ (IsPredict(f) /\ f.pc = "done" /\ unknown(f.data.o))
                   => /\ f.df # <<>>
                      /\ f.resp.status = 200
                      /\ "predicted_sales" \in DOMAIN f.resp.body
            /\ ( /\ IsBulk(f) /\ f.pc = "done"
                 /\ \A i \in DOMAIN f.data.l : ~Malformed(f.data.l[i])
                 /\ \E i \in DOMAIN f.data.l : unknown(f.data.l[i]) )
                   => /\ f.resp.status = 200
                      /\ \A i \in DOMAIN f.data.l :
                             "decision" \in DOMAIN f.resp.body.array[i]

\* the part of C7 that is about the row alone
RowCategoryFlags ==
    \A t \in Threads : RowBuilt(frame[t]) => FlagsSet(frame[t].row, frame[t].category)

\* C8: the server listens only after the artifact was found and loaded and
\* the schema derived; with the artifact missing (or unreadable) the process
\* exits and never listens, and no request is handled without a model.
C8_ServesOnlyWithModel ==
    /\ artifact.kind # "pipeline" => server \in {"starting", "exited"}
    /\ server \in {"imported", "serving"}
           => /\ model = artifact.pipeline
              /\ model # Unbound
              /\ feature_names = model.feature_names_in_
    /\ \A t \in Threads :
           frame[t].pc # "idle" => server = "serving" /\ model # Unbound

\* the artifact is missing and the process has exited
C8_Witness == artifact.kind = "missing" /\ server = "exited"

\* the states a handler passes through from f when it runs alone, for any
\* readings of the clock, with the model and schema loaded at startup
StepsAlone(f) ==
    LET names == artifact.pipeline.feature_names_in_
        m == artifact.pipeline
    IN  CASE f.pc = "received" /\ f.endpoint = "predict" ->
                 {PredictBuild(f, names, n) : n \in DOMAIN Clock}
          [] f.pc = "received" /\ f.endpoint = "bulk_predict" ->
                 {BulkBegin(f)}
          [] f.pc = "row_built" -> {PredictRespond(f, m)}
          [] f.pc = "loop" /\ f.i <= Len(f.data.l) ->
                 {BulkItem(f, names, m, n) : n \in DOMAIN Clock}
          [] f.pc = "loop" /\ f.i > Len(f.data.l) -> {BulkReturn(f)}
          [] OTHER -> {}

\* the handler, running alone from f, passes through g
RECURSIVE ReachesAlone(_, _)
ReachesAlone(f, g) ==
    \/ f = g
    \/ \E h \in StepsAlone(f) : ReachesAlone(h, g)

\* C9: the model and feature_names are read-only after startup, and under
\* any interleaving every request is in a state, and gets a response, that
\* the handler produces when it runs alone on that request's payload with
\* the loaded model: nothing of another request enters it.
C9_RequestsIsolated ==
    /\ server = "serving"
           => /\ model = artifact.pipeline
              /\ feature_names = artifact.pipeline.feature_names_in_
    /\ \A t \in Threads :
           frame[t].pc # "idle"
               => ReachesAlone(Fresh(frame[t].endpoint, frame[t].data),
                               frame[t])

\* two requests are in progress at once, each with a row of its own
C9_Witness ==
    \E t, u \in Threads :
        /\ frame[t].pc = "row_built"
        /\ frame[u].pc = "loop" /\ frame[u].df # <<>>
        /\ frame[u].row # frame[t].row

\* C10 as stated: a 200 answer of bulk_predict to a list of n items has n
\* entries, the i-th is the error or result object of the i-th item, and it
\* echoes the category of that item.
C10_EntryEchoesCategory ==
    \A t \in Threads :
        LET f == frame[t]
        IN  (IsBulk(f) /\ Replied(f, 200))
            => /\ Len(f.resp.body.array) = Len(f.data.l)
               /\ \A i \in DOMAIN f.data.l :
                      /\ "error" \in DOMAIN f.resp.body.array[i]
                             <=> LacksKey(f.data.l[i])
                      /\ "category" \in DOMAIN f.data.l[i]
                             => f.resp.body.array[i].category
                                    = f.data.l[i]["category"]

\* entry e answers item o: an error object with the category as given, or
\* "unknown" when there is none; or a result with the normalised category
\* and the stock as a float
Answers(e, o) ==
    IF LacksKey(o)
    THEN /\ DOMAIN e = {"error", "category", "current_stock"}
         /\ e.category =
                IF "category" \in DOMAIN o THEN o["category"] ELSE Unknown
    ELSE /\ "decision" \in DOMAIN e /\ "error" \notin DOMAIN e
         /\ e.category = JStr(CategoryOf(o))
         /\ e.current_stock = JNum(StockOf(o))

\* C10 amended: the items are processed in order, each appending exactly one
\* entry, so a 200 answer to a list of n items has n entries, the i-th being
\* the error or result object of the i-th item; an error entry carries the
\* item's category as given ("unknown" when it has none), a result entry the
\* category lower-cased and stripped.
C10_EntryPerItem ==
    \A t \in Threads :
        LET f == frame[t]
        IN  /\ (IsBulk(f) /\ f.pc = "loop")
                => /\ Len(f.results) = f.i - 1
                   /\ \A i \in DOMAIN f.results :
                          Answers(f.results[i], f.data.l[i])
            /\ (IsBulk(f) /\ Replied(f, 200))
                => /\ Len(f.resp.body.array) = Len(f.data.l)
                   /\ \A i \in DOMAIN f.data.l :
                          Answers(f.resp.body.array[i], f.data.l[i])

\* a 200 answer holds an error entry followed by a result entry whose
\* category is not the text the item gave
C10_Witness ==
    \E t \in Threads :
        LET f == frame[t]
        IN  /\ IsBulk(f) /\ Replied(f, 200)
            /\ Len(f.data.l) = 2
            /\ "error" \in DOMAIN f.resp.body.array[1]
            /\ "decision" \in DOMAIN f.resp.body.array[2]
            /\ f.resp.body.array[2].category # f.data.l[2]["category"]

=============================================================================
